---- MODULE Spec2Model ----
(***************************************************************************)
(* LSB steganography (lsbs_steganography): a model of LSBSteganography     *)
(* (steganography.py) and of the capacity gate of the command line tool    *)
(* (cli.py).  Images are decoded pixel grids kept under two file names;    *)
(* messages are Python strings, i.e. sequences of code points.             *)
(***************************************************************************)
EXTENDS Integers, Sequences, FiniteSets

(* ----------------------------- bounds ---------------------------------- *)
\* largest width (images are MaxW - 1 or MaxW wide) and height of an image
MaxW == 8
MaxH == 7
\* longest message built freely from Alphabet
MaxMsgLen == 2

(* --------------------------- small helpers ----------------------------- *)
Max(a, b) == IF a >= b THEN a ELSE b

Abs(x) == IF x < 0 THEN -x ELSE x

\* number of binary digits of n >= 1 (what bin(n) prints)
RECURSIVE BitLength(_)
BitLength(n) == IF n < 2 THEN 1 ELSE 1 + BitLength(n \div 2)

\* format(n, '08b'): the binary digits of n, most significant first,
\* zero-padded on the left to a MINIMUM width of 8
Format08b(n) ==
  LET w == IF n < 256 THEN 8 ELSE BitLength(n)
  IN  [i \in 1..w |-> (n \div 2^(w - i)) % 2]

\* int(s, 2) for a sequence of binary digits, most significant first
RECURSIVE Int2Upto(_, _)
Int2Upto(s, k) == IF k = 0 THEN 0 ELSE 2 * Int2Upto(s, k - 1) + s[k]

Int2(s) == Int2Upto(s, Len(s))

\* Python's s[a:b] for 0 <= a: the elements at 0-based positions a..b-1,
\* with b clamped to the length of s
Slice(s, a, b) ==
  LET e == IF b > Len(s) THEN Len(s) ELSE b
  IN  IF a >= e THEN <<>> ELSE SubSeq(s, a + 1, e)

\* ''.join(seq of sequences)
RECURSIVE Join(_)
Join(ss) == IF Len(ss) = 0 THEN <<>> ELSE Head(ss) \o Join(Tail(ss))

(* ------------------------ LSBSteganography ----------------------------- *)
\* self.delimiter = "###END###"
delimiter == <<35, 35, 35, 69, 78, 68, 35, 35, 35>>

message_to_binary(message) ==
  Join([k \in 1..Len(message) |-> Format08b(message[k])])

\* a slip at the tail: an incomplete last group is decoded too (as if padded)
RECURSIVE binary_to_message_from_keep_tail(_, _)
binary_to_message_from_keep_tail(binary_data, i) ==
  IF i >= Len(binary_data) THEN <<>>
  ELSE LET byte == Slice(binary_data, i, i + 8)
       IN  <<Int2(byte) * 2^(8 - Len(byte))>>
             \o binary_to_message_from_keep_tail(binary_data, i + 8)

RECURSIVE binary_to_message_from(_, _)
binary_to_message_from(binary_data, i) ==
  IF i >= Len(binary_data) THEN <<>>
  ELSE LET byte == Slice(binary_data, i, i + 8)
       IN  (IF Len(byte) = 8 THEN <<Int2(byte)>> ELSE <<>>)
             \o binary_to_message_from(binary_data, i + 8)

binary_to_message(binary_data) == binary_to_message_from(binary_data, 0)

\* a slip in the slice: the first digit is dropped instead of the last
modify_pixel_drop_first(pixel, data_bit) ==
  LET pixel_bin == Format08b(pixel)
      modified_pixel_bin == Slice(pixel_bin, 1, Len(pixel_bin)) \o <<data_bit>>
  IN  Int2(modified_pixel_bin)

modify_pixel(pixel, data_bit) ==
  LET pixel_bin == Format08b(pixel)
      modified_pixel_bin == Slice(pixel_bin, 0, Len(pixel_bin) - 1) \o <<data_bit>>
  IN  Int2(modified_pixel_bin)

extract_lsb(pixel) ==
  LET pixel_bin == Format08b(pixel) IN pixel_bin[Len(pixel_bin)]

(* ------------------------------ files ---------------------------------- *)
Paths == {"cover", "other", "stego"}

\* a path at which no image has been saved
NoFile == [width |-> 0, height |-> 0, pixels |-> <<>>]

Exists(f) == f # NoFile

\* a slip in the channel order: the pixel is filled B, G, R
HideStep_blue_first(pixels, binary_message, st) ==
  LET n  == Len(binary_message)
      pixel == pixels[Len(st.modified_pixels) + 1]
      i0 == st.data_index
      b  == IF i0 < n THEN modify_pixel(pixel[3], binary_message[i0 + 1])
                      ELSE pixel[3]
      i1 == IF i0 < n THEN i0 + 1 ELSE i0
      g  == IF i1 < n THEN modify_pixel(pixel[2], binary_message[i1 + 1])
                      ELSE pixel[2]
      i2 == IF i1 < n THEN i1 + 1 ELSE i1
      r  == IF i2 < n THEN modify_pixel(pixel[1], binary_message[i2 + 1])
                      ELSE pixel[1]
      i3 == IF i2 < n THEN i2 + 1 ELSE i2
      appended == Append(st.modified_pixels, <<r, g, b>>)
  IN  IF i3 >= n
        THEN [data_index |-> i3,
              modified_pixels |-> appended \o Slice(pixels, Len(appended), Len(pixels)),
              stop |-> TRUE]
        ELSE [data_index |-> i3, modified_pixels |-> appended, stop |-> FALSE]

\* a slip at the `break`: the remaining pixels are not appended
HideStep_no_extend(pixels, binary_message, st) ==
  LET n  == Len(binary_message)
      pixel == pixels[Len(st.modified_pixels) + 1]
      i0 == st.data_index
      r  == IF i0 < n THEN modify_pixel(pixel[1], binary_message[i0 + 1])
                      ELSE pixel[1]
      i1 == IF i0 < n THEN i0 + 1 ELSE i0
      g  == IF i1 < n THEN modify_pixel(pixel[2], binary_message[i1 + 1])
                      ELSE pixel[2]
      i2 == IF i1 < n THEN i1 + 1 ELSE i1
      b  == IF i2 < n THEN modify_pixel(pixel[3], binary_message[i2 + 1])
                      ELSE pixel[3]
      i3 == IF i2 < n THEN i2 + 1 ELSE i2
      appended == Append(st.modified_pixels, <<r, g, b>>)
  IN  IF i3 >= n
        THEN [data_index |-> i3,
              modified_pixels |-> appended,
              stop |-> TRUE]
        ELSE [data_index |-> i3, modified_pixels |-> appended, stop |-> FALSE]

\* hide_message: one iteration of `for pixel in pixels`, on the loop's state
\* st = [data_index, modified_pixels, stop]; the pixel visited is the one
\* after those already appended, and stop is set by the `break`
HideStep(pixels, binary_message, st) ==
  LET n  == Len(binary_message)
      pixel == pixels[Len(st.modified_pixels) + 1]
      i0 == st.data_index
      r  == IF i0 < n THEN modify_pixel(pixel[1], binary_message[i0 + 1])
                      ELSE pixel[1]
      i1 == IF i0 < n THEN i0 + 1 ELSE i0
      g  == IF i1 < n THEN modify_pixel(pixel[2], binary_message[i1 + 1])
                      ELSE pixel[2]
      i2 == IF i1 < n THEN i1 + 1 ELSE i1
      b  == IF i2 < n THEN modify_pixel(pixel[3], binary_message[i2 + 1])
                      ELSE pixel[3]
      i3 == IF i2 < n THEN i2 + 1 ELSE i2
      appended == Append(st.modified_pixels, <<r, g, b>>)
  IN  IF i3 >= n
        THEN [data_index |-> i3,
              modified_pixels |-> appended \o Slice(pixels, Len(appended), Len(pixels)),
              stop |-> TRUE]
        ELSE [data_index |-> i3, modified_pixels |-> appended, stop |-> FALSE]

\* hide_message: the loop `for pixel in pixels`, run to its end from st
RECURSIVE HideLoop(_, _, _)
HideLoop(pixels, binary_message, st) ==
  IF st.stop \/ Len(st.modified_pixels) >= Len(pixels) THEN st
  ELSE HideLoop(pixels, binary_message, HideStep(pixels, binary_message, st))

\* hide_message(image, message): [ok, saved]; saved = NoFile when nothing
\* is written to output_path
hide_message(img, message) ==
  LET full_message == message \o delimiter
      binary_message == message_to_binary(full_message)
      total_pixels == img.width * img.height
      total_bits_available == total_pixels * 3
  IN  IF Len(binary_message) > total_bits_available
        THEN [ok |-> FALSE, saved |-> NoFile]
        ELSE [ok |-> TRUE,
              saved |-> [width |-> img.width, height |-> img.height,
                         pixels |-> HideLoop(img.pixels, binary_message,
                                            [data_index |-> 0,
                                             modified_pixels |-> <<>>,
                                             stop |-> FALSE]).modified_pixels]]

\* a slip in the split: the scan keeps the rightmost position
RECURSIVE Find_rightmost(_, _, _)
Find_rightmost(s, d, i) ==
  IF i + Len(d) - 1 > Len(s) THEN 0
  ELSE LET later == Find_rightmost(s, d, i + 1)
       IN  IF later # 0 THEN later
           ELSE IF Slice(s, i - 1, i - 1 + Len(d)) = d THEN i ELSE 0

\* `self.delimiter in full_message` / `full_message.split(self.delimiter)[0]`:
\* scan for the leftmost position at which d occurs in s (0 = nowhere)
RECURSIVE Find(_, _, _)
Find(s, d, i) ==
  IF i + Len(d) - 1 > Len(s) THEN 0
  ELSE IF Slice(s, i - 1, i - 1 + Len(d)) = d THEN i
  ELSE Find(s, d, i + 1)

\* the LSBs of all channels of all pixels, in the order the loop appends them
lsb_stream(pixels) ==
  [s \in 1..(3 * Len(pixels)) |->
     extract_lsb(pixels[((s - 1) \div 3) + 1][((s - 1) % 3) + 1])]

\* extract_message(image): <<message>> on success, <<>> for None
extract_message(img) ==
  LET binary_data == lsb_stream(img.pixels)
      full_message == binary_to_message(binary_data)
      at == Find(full_message, delimiter, 1)
  IN  IF at # 0 THEN <<Slice(full_message, 0, at - 1)>> ELSE <<>>

\* a slip in the difference: the abs() is missing
CompareChannel_signed(acc, orig, stego, j) ==
  LET diff == orig[j] - stego[j]
  IN  IF diff > 0
        THEN [acc EXCEPT !.differences = acc.differences + 1,
                         !.max_diff = Max(acc.max_diff, diff)]
        ELSE acc

\* compare_images: one pass of the inner loop `for j in range(3)` body
CompareChannel(acc, orig, stego, j) ==
  LET diff == Abs(orig[j] - stego[j])
  IN  IF diff > 0
        THEN [acc EXCEPT !.differences = acc.differences + 1,
                         !.max_diff = Max(acc.max_diff, diff)]
        ELSE acc

\* compare_images: the loop over zip(orig_pixels, stego_pixels), run to its
\* end from the state acc = [i, differences, max_diff]
RECURSIVE CompareLoop(_, _, _)
CompareLoop(orig_pixels, stego_pixels, acc) ==
  IF acc.i >= Len(orig_pixels) \/ acc.i >= Len(stego_pixels) THEN acc
  ELSE CompareLoop(orig_pixels, stego_pixels,
         LET orig == orig_pixels[acc.i + 1]
             stego == stego_pixels[acc.i + 1]
             a3 == CompareChannel(CompareChannel(CompareChannel(acc,
                     orig, stego, 1), orig, stego, 2), orig, stego, 3)
         IN  [i |-> acc.i + 1, differences |-> a3.differences,
              max_diff |-> a3.max_diff])

\* compare_images(original, stego): <<report>>, or <<>> when the sizes differ
compare_images(original, stego) ==
  IF <<original.width, original.height>> # <<stego.width, stego.height>>
    THEN <<>>
    ELSE LET res == CompareLoop(original.pixels, stego.pixels,
                                [i |-> 0, differences |-> 0, max_diff |-> 0])
         IN  <<[total_values |-> Len(original.pixels) * 3,
                differences  |-> res.differences,
                max_diff     |-> res.max_diff]>>

\* get_capacity(image) as the command line tool uses it
get_capacity(img) ==
  LET total_pixels == img.width * img.height
      total_bits == total_pixels * 3
      delimiter_overhead == 8 * Len(delimiter)
  IN  [width |-> img.width, height |-> img.height,
       total_pixels |-> total_pixels,
       total_bits |-> total_bits,
       delimiter_overhead |-> delimiter_overhead,
       max_characters |-> (total_bits - delimiter_overhead) \div 8]

(* ------------------------------ inputs --------------------------------- *)
\* code points messages are built from: '#', 'h' and the euro sign U+20AC
Alphabet == {35, 104, 8364}

RECURSIVE Strings(_)
Strings(n) ==
  IF n = 0 THEN {<<>>}
  ELSE LET shorter == Strings(n - 1)
       IN  shorter \cup {Append(s, c) : s \in shorter, c \in Alphabet}

\* messages: short strings, strings with the delimiter inside, and strings
\* that end with a proper prefix of the delimiter
Messages ==
  Strings(MaxMsgLen)
    \cup {a \o delimiter \o b : a \in Strings(1), b \in {<<>>, <<104>>}}
    \cup {SubSeq(delimiter, 1, 6), SubSeq(delimiter, 1, 8)}

Widths == (MaxW - 1)..MaxW
Heights == 1..MaxH

\* the pixel at (0-based) index i of a decoded image
FillPixel(fill, i) ==
  IF fill = "white" THEN <<255, 255, 255>>
  ELSE <<(7 * i) % 256, (13 * i + 2) % 256, (255 + 31 * i) % 256>>

MakeImage(w, h, fill) ==
  [width |-> w, height |-> h,
   pixels |-> [k \in 1..(w * h) |-> FillPixel(fill, k - 1)]]

(* ------------------------------ state ---------------------------------- *)
VARIABLES files, last

vars == <<files, last>>

\* the record of the operation that ran last
Op(op, src, dst, msg, ok, source, result, report, info) ==
  [op |-> op, src |-> src, dst |-> dst, message |-> msg, ok |-> ok,
   source |-> source, result |-> result, report |-> report, info |-> info]

NoInfo == get_capacity(NoFile)

\* the message an image used as a cover may already carry
CarrierMessage == <<104>> \o delimiter \o <<104>>

\* a white image into which CarrierMessage was embedded earlier (the plain
\* white image when it is too small for that)
Carrier(w, h) ==
  LET res == hide_message(MakeImage(w, h, "white"), CarrierMessage)
  IN  IF res.ok THEN res.saved ELSE MakeImage(w, h, "white")

\* two images have been decoded and saved: the cover, and another image of
\* as many pixels: of the same dimensions, of the transposed dimensions, or
\* of the same dimensions and already carrying a message
Init ==
  /\ \E w \in Widths, h \in Heights, t \in {"same", "transposed", "carrier"} :
       files = [p \in Paths |->
                  CASE p = "cover" -> MakeImage(w, h, "ramp")
                    [] p = "other" -> CASE t = "same" -> MakeImage(w, h, "white")
                                        [] t = "transposed" -> MakeImage(h, w, "white")
                                        [] OTHER -> Carrier(w, h)
                    [] OTHER -> NoFile]
  /\ last = Op("start", "cover", "cover", <<>>, FALSE, NoFile, <<>>, <<>>, NoInfo)

\* An operation that leaves the files as they are is the last one of a run:
\* what any later operation does depends on the files only, so every state
\* a longer run reaches is reached by a run of this shape.
Running == last.op = "start" \/ (last.op \in {"hide", "gate_pass"} /\ last.ok)

\* stego.hide_message(image_path, message, output_path), output_path new
Hide(image_path, message, output_path) ==
  /\ Running
  /\ Exists(files[image_path])
  /\ ~Exists(files[output_path])
  /\ LET res == hide_message(files[image_path], message)
     IN  /\ files' = IF res.ok THEN [files EXCEPT ![output_path] = res.saved]
                               ELSE files
         /\ last' = Op("hide", image_path, output_path, message, res.ok,
                       files[image_path], <<>>, <<>>, NoInfo)

\* stego.extract_message(image_path)
Extract(image_path) ==
  /\ Running
  /\ Exists(files[image_path])
  /\ last' = Op("extract", image_path, image_path, <<>>, TRUE, files[image_path],
                extract_message(files[image_path]), <<>>, NoInfo)
  /\ UNCHANGED files

\* stego.compare_images(original_path, stego_path)
Compare(original_path, stego_path) ==
  /\ Running
  /\ Exists(files[original_path])
  /\ Exists(files[stego_path])
  /\ last' = Op("compare", original_path, stego_path, <<>>, TRUE,
                files[original_path], <<>>,
                compare_images(files[original_path], files[stego_path]), NoInfo)
  /\ UNCHANGED files

\* the 'capacity' action of the command line tool
Capacity(image_path) ==
  /\ Running
  /\ Exists(files[image_path])
  /\ last' = Op("capacity", image_path, image_path, <<>>, TRUE, files[image_path],
                <<>>, <<>>, get_capacity(files[image_path]))
  /\ UNCHANGED files

\* interactive mode, choice 1: capacity check, then hide_message
InteractiveHide(image_path, message, output_path) ==
  /\ Running
  /\ Exists(files[image_path])
  /\ ~Exists(files[output_path])
  /\ message # <<>>
  /\ LET capacity_info == get_capacity(files[image_path])
         accepted == ~(Len(message) > capacity_info.max_characters)
         res == IF accepted THEN hide_message(files[image_path], message)
                            ELSE [ok |-> FALSE, saved |-> NoFile]
     IN  /\ files' = IF res.ok THEN [files EXCEPT ![output_path] = res.saved]
                               ELSE files
         /\ last' = Op(IF accepted THEN "gate_pass" ELSE "gate_reject",
                       image_path, output_path, message, res.ok,
                       files[image_path], <<>>, <<>>, capacity_info)

Next ==
  \/ \E p \in {"cover", "other"}, m \in Messages : Hide(p, m, "stego")
  \/ \E p \in Paths : Extract(p)
  \/ \E p \in Paths, q \in Paths : Compare(p, q)
  \/ \E p \in Paths : Capacity(p)
  \/ \E m \in Messages : InteractiveHide("cover", m, "stego")

Spec == Init /\ [][Next]_vars

TypeOK ==
  \A p \in Paths : Len(files[p].pixels) = files[p].width * files[p].height

(* ---------------------- notions the claims use ------------------------- *)
\* the last operation was a hide_message call that saved an image
Embedded == last.op \in {"hide", "gate_pass"} /\ last.ok

\* the image it read, the image it saved, and the bits it had to embed
Src == last.source
Out == files[last.dst]
PayloadBits == message_to_binary(last.message \o delimiter)

\* channel slots of an image, numbered from 0 in row-major pixel order and
\* R, G, B order within a pixel
NumSlots(img) == 3 * Len(img.pixels)
Chan(img, i) == img.pixels[(i \div 3) + 1][(i % 3) + 1]

\* d occurs in s as a contiguous substring starting at (1-based) position i
OccursAt(s, d, i) ==
  /\ i >= 1
  /\ i + Len(d) - 1 <= Len(s)
  /\ \A j \in 1..Len(d) : s[i + j - 1] = d[j]

Contains(s, d) == \E i \in 1..Len(s) : OccursAt(s, d, i)

(* ------------------------------ claims --------------------------------- *)
\* C1 (as stated, for messages without the delimiter inside): whenever the
\* bits of message ++ delimiter fit in the 3 x width x height channel slots,
\* hide_message succeeds and extract_message on the saved image returns
\* exactly the message.
C1_RoundTrip ==
  (/\ last.op = "hide"
   /\ ~Contains(last.message, delimiter)
   /\ Len(PayloadBits) <= 3 * Src.width * Src.height)
    => (last.ok /\ extract_message(Out) = <<last.message>>)

\* C2 (as stated): hide_message succeeds if and only if
\* 8 x (len(message) + len(delimiter)) <= 3 x width x height, and when it
\* fails nothing is saved at the output path.
C2_CapacityBoundary ==
  last.op = "hide" =>
    /\ last.ok <=> (8 * (Len(last.message) + Len(delimiter))
                      <= 3 * Src.width * Src.height)
    /\ ~last.ok => ~Exists(Out)

\* C3: after a successful hide_message, for every i below the number of
\* payload bits, the least significant bit of channel slot i of the saved
\* image (row-major, R then G then B) is bit i of the MSB-first bits of
\* message ++ delimiter; the payload fits in the first len(bits) slots.
C3_BitPlacement ==
  Embedded =>
    /\ Len(PayloadBits) <= NumSlots(Out)
    /\ \A i \in 0..(Len(PayloadBits) - 1) : Chan(Out, i) % 2 = PayloadBits[i + 1]

\* a successful embedding that ends inside a pixel, changes some channel and
\* leaves slots free
C3_Witness ==
  /\ Embedded
  /\ Len(PayloadBits) % 3 # 0
  /\ Len(PayloadBits) < NumSlots(Out)
  /\ \E i \in 0..(Len(PayloadBits) - 1) : Chan(Out, i) # Chan(Src, i)

\* C4: after a successful hide_message every channel value keeps the seven
\* higher-order bits of the source value, so it differs from it by at most
\* 1, and at most len(bits(message ++ delimiter)) channel values differ.
C4_MinimalPerturbation ==
  Embedded =>
    /\ NumSlots(Out) = NumSlots(Src)
    /\ \A i \in 0..(NumSlots(Src) - 1) :
          /\ Chan(Out, i) \div 2 = Chan(Src, i) \div 2
          /\ Abs(Chan(Out, i) - Chan(Src, i)) <= 1
    /\ Cardinality({i \in 0..(NumSlots(Src) - 1) : Chan(Out, i) # Chan(Src, i)})
          <= Len(PayloadBits)

\* a successful embedding that raised one channel value and lowered another
C4_Witness ==
  /\ Embedded
  /\ \E i \in 0..(NumSlots(Src) - 1) : Chan(Out, i) = Chan(Src, i) + 1
  /\ \E i \in 0..(NumSlots(Src) - 1) : Chan(Out, i) = Chan(Src, i) - 1

\* C5: after a successful hide_message the saved image has the dimensions
\* and the pixel count of the source, and every channel slot at index
\* >= len(bits(message ++ delimiter)) holds the source's value.
C5_UnchangedTail ==
  Embedded =>
    /\ Out.width = Src.width
    /\ Out.height = Src.height
    /\ Len(Out.pixels) = Len(Src.pixels)
    /\ \A i \in Len(PayloadBits)..(NumSlots(Src) - 1) : Chan(Out, i) = Chan(Src, i)

\* a successful embedding with whole pixels after the last written bit, in
\* an image whose free slots do not all hold the same bit
C5_Witness ==
  /\ Embedded
  /\ Len(PayloadBits) + 6 <= NumSlots(Src)
  /\ \E i, j \in Len(PayloadBits)..(NumSlots(Src) - 1) :
        Chan(Src, i) % 2 # Chan(Src, j) % 2

\* the bytes the least significant bits of an image spell, eight slots to a
\* byte, first slot the most significant
LsbBytes(img) ==
  LET lsb(i) == Chan(img, i) % 2
  IN  [k \in 1..(NumSlots(img) \div 8) |->
         128 * lsb(8 * k - 8) + 64 * lsb(8 * k - 7) + 32 * lsb(8 * k - 6)
           + 16 * lsb(8 * k - 5) + 8 * lsb(8 * k - 4) + 4 * lsb(8 * k - 3)
           + 2 * lsb(8 * k - 2) + lsb(8 * k - 1)]

\* the leftmost position at which d occurs in s (s contains d)
FirstOccurrence(s, d) ==
  CHOOSE i \in 1..Len(s) :
    OccursAt(s, d, i) /\ \A j \in 1..(i - 1) : ~OccursAt(s, d, j)

\* C6: extract_message returns exactly the bytes that precede the first
\* occurrence of the delimiter in the bytes spelled by the least significant
\* bits of all channels of the whole image, and returns nothing (None) when
\* the delimiter occurs nowhere in them.
C6_ExtractionOutcome ==
  last.op = "extract" =>
    LET bytes == LsbBytes(files[last.src])
    IN  IF Contains(bytes, delimiter)
          THEN /\ Len(last.result) = 1
               /\ Len(last.result[1]) = FirstOccurrence(bytes, delimiter) - 1
               /\ \A k \in 1..Len(last.result[1]) : last.result[1][k] = bytes[k]
          ELSE last.result = <<>>

\* an extraction that found a non-empty message in front of a delimiter
\* that occurs twice
C6_Witness ==
  /\ last.op = "extract"
  /\ Len(last.result) = 1
  /\ Len(last.result[1]) > 0
  /\ \E i \in 1..Len(LsbBytes(files[last.src])) :
        /\ i > Len(last.result[1]) + 1
        /\ OccursAt(LsbBytes(files[last.src]), delimiter, i)

\* C7 (as stated): the capacity report has total_pixels = width x height,
\* total_bits = 3 x total_pixels, a delimiter overhead of 72 bits and
\* max_characters = floor((total_bits - 72) / 8), and the gate
\* len(message) <= max_characters lets a message through exactly when
\* hide_message of that message into the same image succeeds.
C7_CapacityGate ==
  last.op \in {"gate_pass", "gate_reject"} =>
    /\ last.info.total_pixels = Src.width * Src.height
    /\ last.info.total_bits = 3 * last.info.total_pixels
    /\ last.info.delimiter_overhead = 72
    /\ 8 * last.info.max_characters <= last.info.total_bits - 72
    /\ last.info.total_bits - 72 < 8 * (last.info.max_characters + 1)
    /\ (last.op = "gate_pass") <=> hide_message(Src, last.message).ok

\* C8: compare_images leaves both files as they are; it gives no report
\* when the widths or the heights differ, and otherwise reports
\* total = pixel count x 3, the number of channel positions whose values
\* differ and the largest absolute difference (0 when nothing differs);
\* comparing the source and the result of a hide_message gives at most 1.
C8_Comparator ==
  [][last'.op = "compare" =>
       /\ files' = files
       /\ LET a == files[last'.src]
              b == files[last'.dst]
              rep == last'.report[1]
              slots == 0..(NumSlots(a) - 1)
          IN  IF a.width # b.width \/ a.height # b.height
                THEN last'.report = <<>>
                ELSE /\ Len(last'.report) = 1
                     /\ rep.total_values = a.width * a.height * 3
                     /\ rep.differences =
                          Cardinality({i \in slots : Chan(a, i) # Chan(b, i)})
                     /\ \A i \in slots : Abs(Chan(a, i) - Chan(b, i)) <= rep.max_diff
                     /\ \/ rep.max_diff = 0
                        \/ \E i \in slots : Abs(Chan(a, i) - Chan(b, i)) = rep.max_diff
                     /\ (Embedded /\ {last'.src, last'.dst} = {last.src, last.dst})
                          => rep.max_diff <= 1]_vars

\* a comparison of a source with the image embedded into it, which differ
C8_Witness ==
  /\ last.op = "compare"
  /\ last.src = "other"
  /\ last.dst = "stego"
  /\ Len(last.report) = 1
  /\ last.report[1].differences > 0
  /\ last.report[1].max_diff = 1

\* C9 (as stated): message_to_binary emits exactly 8 bits, most significant
\* first, for each element of message ++ delimiter, and binary_to_message
\* of those bits returns message ++ delimiter.
C9_BitCodecExact ==
  last.op = "hide" =>
    LET full_message == last.message \o delimiter
    IN  /\ Len(PayloadBits) = 8 * Len(full_message)
        /\ \A k \in 1..Len(full_message) : \A j \in 1..8 :
              PayloadBits[8 * (k - 1) + j] = (full_message[k] \div 2^(8 - j)) % 2
        /\ binary_to_message(PayloadBits) = full_message

\* C10 (as stated): for a message that fits and contains the delimiter,
\* hide_message succeeds and extract_message of the saved image returns the
\* part of the message that precedes the first delimiter in it.
C10_CollisionTruncates ==
  (/\ last.op = "hide"
   /\ Contains(last.message, delimiter)
   /\ Len(PayloadBits) <= 3 * Src.width * Src.height)
    => /\ last.ok
       /\ extract_message(Out) =
            <<SubSeq(last.message, 1, FirstOccurrence(last.message, delimiter) - 1)>>

\* the image img with the least significant bit of every channel slot from
\* slot number `from` on inverted
FlipLsbFrom(img, from) ==
  [img EXCEPT !.pixels =
     [k \in 1..Len(img.pixels) |->
        [j \in 1..3 |->
           LET v == img.pixels[k][j]
           IN  IF 3 * (k - 1) + (j - 1) >= from
                 THEN (IF v % 2 = 0 THEN v + 1 ELSE v - 1)
                 ELSE v]]]

\* C11: binary_to_message turns n bits into exactly floor(n / 8) bytes, the
\* k-th byte being the k-th group of 8 bits from the start, and drops a
\* shorter last group; so extract_message does not depend on the last
\* (3 x width x height) mod 8 least significant bits of the image.
C11_IncompleteTailDropped ==
  /\ last.op = "extract" =>
       LET img == files[last.src]
           bits == lsb_stream(img.pixels)
           bytes == binary_to_message(bits)
       IN  /\ Len(bytes) = Len(bits) \div 8
           /\ \A k \in 1..Len(bytes) :
                 bytes[k] = 128 * bits[8 * k - 7] + 64 * bits[8 * k - 6]
                            + 32 * bits[8 * k - 5] + 16 * bits[8 * k - 4]
                            + 8 * bits[8 * k - 3] + 4 * bits[8 * k - 2]
                            + 2 * bits[8 * k - 1] + bits[8 * k]
           /\ extract_message(FlipLsbFrom(img, 8 * (Len(bits) \div 8))) = last.result
  /\ last.op = "hide" =>
       Len(binary_to_message(PayloadBits)) = Len(PayloadBits) \div 8

\* an extraction from an image whose number of channel slots is not a
\* multiple of 8 and whose last slot holds a 1
C11_Witness ==
  /\ last.op = "extract"
  /\ NumSlots(files[last.src]) % 8 # 0
  /\ Chan(files[last.src], NumSlots(files[last.src]) - 1) % 2 = 1

\* C12 (as stated, for messages of code points below 256): for a message
\* that fits and does not contain the delimiter, the first occurrence of
\* the delimiter in message ++ delimiter starts right after the message,
\* and extract_message of the saved image returns the message.
C12_OnlyCollisionBreaksFraming ==
  (/\ last.op = "hide"
   /\ \A k \in 1..Len(last.message) : last.message[k] < 256
   /\ ~Contains(last.message, delimiter)
   /\ Len(PayloadBits) <= 3 * Src.width * Src.height)
    => /\ FirstOccurrence(last.message \o delimiter, delimiter) = Len(last.message) + 1
       /\ last.ok
       /\ extract_message(Out) = <<last.message>>

\* C13 (as stated): for the two images of equal dimensions at hand (the
\* second may already carry a message) and any message, hide_message
\* succeeds on both or on neither, and extract_message gives the same
\* result for the two saved images.
C13_CoverIndependence ==
  (/\ last.op = "hide"
   /\ files["other"].width = files["cover"].width
   /\ files["other"].height = files["cover"].height)
    => LET r1 == hide_message(files["cover"], last.message)
           r2 == hide_message(files["other"], last.message)
       IN  /\ r1.ok = r2.ok
           /\ r1.ok => extract_message(r1.saved) = extract_message(r2.saved)
====
